---- MODULE Spec2Model ----
(***************************************************************************)
(* Model of the Index application of privly-applications                   *)
(* (src/Index/js/new.js): the callback state machine that checks the       *)
(* session, lists the user's posts, previews one post in an iframe,        *)
(* resizes that iframe on window messages and relays the previewed URL to  *)
(* the extension.                                                          *)
(*                                                                         *)
(* JavaScript strings are modelled as sequences of one-character strings,  *)
(* so that indexOf, substr, split, replace, the percent-decoding and the   *)
(* regular expression test are computed character by character.            *)
(***************************************************************************)
EXTENDS Integers, Sequences, FiniteSets

(***************************************************************************)
(* Bounds of the model.                                                    *)
(***************************************************************************)
\* Longest post list the content server answers with.
MaxPosts == 2
\* Most "URL chosen" signals recorded on the extension channel.
MaxSignals == 1

(***************************************************************************)
(* JavaScript values and string primitives.                                *)
(***************************************************************************)
\* The value undefined: a one-element sequence whose element is no character.
Undefined == <<"UNDEFINED">>

\* String(undefined), what an operation that expects a string makes of it.
JSString(v) == IF v = Undefined THEN <<"u","n","d","e","f","i","n","e","d">> ELSE v

Letters ==
  {"a","b","c","d","e","f","g","h","i","j","k","l","m",
   "n","o","p","q","r","s","t","u","v","w","x","y","z",
   "A","B","C","D","E","F","G","H","I","J","K","L","M",
   "N","O","P","Q","R","S","T","U","V","W","X","Y","Z"}

\* String.prototype.indexOf: the 0-based position of the first occurrence of
\* sub in s, or -1.
IndexOf(s, sub) ==
  LET hits == {i \in 0..(Len(s) - Len(sub)) : SubSeq(s, i + 1, i + Len(sub)) = sub}
  IN  IF hits = {} THEN -1 ELSE CHOOSE i \in hits : \A j \in hits : i <= j

\* String.prototype.substr(start) for start >= 0.
Substr(s, start) == SubSeq(s, start + 1, Len(s))

\* String.prototype.replace with a string pattern: only the first occurrence
\* is replaced.
ReplaceFirst(s, pat, rep) ==
  LET i == IndexOf(s, pat)
  IN  IF i = -1 THEN s
      ELSE SubSeq(s, 1, i) \o rep \o SubSeq(s, i + Len(pat) + 1, Len(s))

\* String.prototype.split with a one-character separator.
RECURSIVE Split(_, _)
Split(s, sep) ==
  LET i == IndexOf(s, <<sep>>)
  IN  IF i = -1 THEN <<s>>
      ELSE <<SubSeq(s, 1, i)>> \o Split(Substr(s, i + 1), sep)

\* An element of an array, undefined past its end.
At(arr, i) == IF i \in 1..Len(arr) THEN arr[i] ELSE Undefined

(***************************************************************************)
(* Parameter codec (shared/javascripts/parameters.js).                     *)
(***************************************************************************)
\* The percent escapes of the characters that delimit URLs and parameters.
Escapes ==
  { <<"2","F","/">>, <<"3","F","?">>, <<"3","D","=">>, <<"2","6","&">>,
    <<"3","C","<">> }

Unescape(a, b) == IF \E e \in Escapes : e[1] = a /\ e[2] = b
                  THEN (CHOOSE e \in Escapes : e[1] = a /\ e[2] = b)[3]
                  ELSE "%"

\* TRUE when every % of s starts a well-formed escape.
RECURSIVE WellEncoded(_)
WellEncoded(s) ==
  IF s = <<>> THEN TRUE
  ELSE IF s[1] # "%" THEN WellEncoded(Tail(s))
  ELSE /\ Len(s) >= 3
       /\ Unescape(s[2], s[3]) # "%"
       /\ WellEncoded(SubSeq(s, 4, Len(s)))

RECURSIVE DecodeEscapes(_)
DecodeEscapes(s) ==
  IF s = <<>> THEN <<>>
  ELSE IF s[1] # "%" THEN <<s[1]>> \o DecodeEscapes(Tail(s))
  ELSE <<Unescape(s[2], s[3])>> \o DecodeEscapes(SubSeq(s, 4, Len(s)))

\* The codec's decoding of one key or value: percent escapes are replaced by
\* their characters; a malformed escape leaves the raw string.
DecodeComponent(v) ==
  LET s == JSString(v)
  IN  IF WellEncoded(s) THEN DecodeEscapes(s) ELSE s

\* parameterStringToHash: the string is cut at every "&", each piece at "=",
\* and the decoded first two fields are a key and its value; a later pair
\* with the same key replaces an earlier one.
parameterStringToHash(str) ==
  LET pieces == Split(str, "&")
      pairs  == [i \in 1..Len(pieces) |->
                   LET pair == Split(pieces[i], "=")
                   IN  [key |-> DecodeComponent(At(pair, 1)),
                        value |-> DecodeComponent(At(pair, 2))]]
      keys   == {pairs[i].key : i \in 1..Len(pieces)}
      Last(k) == CHOOSE i \in 1..Len(pieces) :
                   /\ pairs[i].key = k
                   /\ \A j \in 1..Len(pieces) : pairs[j].key = k => j <= i
  IN  [k \in keys |-> pairs[Last(k)].value]

\* Reading a property of the hash: undefined for a key it does not hold.
Get(hash, key) == IF key \in DOMAIN hash THEN hash[key] ELSE Undefined

(***************************************************************************)
(* Strings of new.js and the inputs of the model.                          *)
(***************************************************************************)
privlyApp     == <<"p","r","i","v","l","y","A","p","p">>
privlyDataURL == <<"p","r","i","v","l","y","D","a","t","a","U","R","L">>
FormatJson    == <<"f","o","r","m","a","t","=","j","s","o","n">>
FormatHtml    == <<"f","o","r","m","a","t","=","h","t","m","l">>
DotJson       == <<".","j","s","o","n">>
DotHtml       == <<".","h","t","m","l">>
Px            == <<"p","x">>

\* The three texts of the message area.
NoMessage     == "no message"
SignInPrompt  == "We were unable to sign you into your content server"
FetchErrorMsg == "There was an error fetching your posts."

\* Links as the content server sends them: an address, "?", and parameters.
AppParam(v)  == privlyApp \o <<"=">> \o v
DataParam(v) == privlyDataURL \o <<"=">> \o v
Link(params) == <<"h","/","s","?">> \o params

\* h/p/1.json?x=1 and h/p?format=json&x=1, percent-encoded, and a data URL
\* whose host name holds ".json" as well as its path.
DataJsonSuffix == <<"h","%","2","F","p","%","2","F","1",".","j","s","o","n",
                    "%","3","F","x","%","3","D","1">>
DataFormatJson == <<"h","%","2","F","p","%","3","F","f","o","r","m","a","t",
                    "%","3","D","j","s","o","n","%","2","6","x","%","3","D","1">>
DataJsonTwice  == <<"a",".","j","s","o","n",".","h","%","2","F","7",
                    ".","j","s","o","n">>

UrlMsg      == Link(AppParam(<<"M","s","g">>) \o <<"&">> \o DataParam(DataJsonSuffix))
UrlZb       == Link(AppParam(<<"Z","b">>) \o <<"&">> \o DataParam(DataFormatJson))
UrlSlash    == Link(AppParam(<<"a","%","2","F","b">>) \o <<"&">> \o DataParam(DataJsonSuffix))
UrlLt       == Link(AppParam(<<"%","3","C","s">>) \o <<"&">> \o DataParam(DataJsonSuffix))
UrlEmptyApp == Link(AppParam(<<>>) \o <<"&">> \o DataParam(DataJsonSuffix))
UrlNoApp    == Link(<<"x","=","1","&">> \o DataParam(DataJsonSuffix))
UrlNoQuery  == AppParam(<<"M","s","g">>) \o <<"&">> \o DataParam(DataFormatJson)
UrlJsonHost == Link(AppParam(<<"M","s","g">>) \o <<"&">> \o DataParam(DataJsonTwice))
UrlNoData   == Link(AppParam(<<"M","s","g">>))

PostURLs == { UrlMsg, UrlZb, UrlSlash, UrlLt, UrlEmptyApp, UrlNoApp, UrlNoQuery,
              UrlJsonHost, UrlNoData }

\* A post record; its five other fields are copied into the row unread.
PostRecords == [privly_URL : PostURLs]

\* What sameOriginGetRequest hands its callback: the list of post records of
\* a successful fetch, or the empty object of a failed one.
PostLists == UNION {[1..n -> PostRecords] : n \in 0..MaxPosts}
Responses == [kind : {"list"}, json : PostLists]
               \cup {[kind |-> "object", json |-> <<>>]}
\* What initPrivlyService hands its callbacks: an object with no json list.
SessionData == [kind |-> "missing", json |-> <<>>]

\* The payloads and origins of window messages.
Payloads == { <<"x",",","2","4","0">>, <<"x",",","7",",","9">>, <<"x">> }
OwnOrigin == "https://own"
Origins == { OwnOrigin, "https://foreign" }

Platforms == { "HOSTED", "CHROME" }

(***************************************************************************)
(* The pure parts of new.js.                                               *)
(***************************************************************************)
\* The data URL a post record's link carries, undefined when it has none.
DataURLOf(record) == Get(parameterStringToHash(record.privly_URL), privlyDataURL)

\* The manage URL derived from a data URL.
manageURL(dataURL) ==
  ReplaceFirst(ReplaceFirst(dataURL, FormatJson, FormatHtml), DotJson, DotHtml)

\* The row postCompleted adds for a record: the View link's
\* data-privly-app-link and the Manage link's href.
TableRow(record, manage) == [link |-> record.privly_URL, manage |-> manage]

\* One pass of postCompleted's loop, given the record's privlyDataURL:
\* calling replace on undefined throws, otherwise the row is added.
LoopBody(record, dataURL) ==
  IF dataURL = Undefined
  THEN [throws |-> TRUE, row |-> TableRow(record, Undefined)]
  ELSE [throws |-> FALSE, row |-> TableRow(record, manageURL(dataURL))]

\* The click handler's params and app of a link.
ParamsOf(href) == Substr(href, IndexOf(href, <<"?">>) + 1)
AppOf(params) == Get(parameterStringToHash(params), privlyApp)

\* /^[a-zA-Z]+$/.test(app): the argument is converted to a string first.
AppNameTest(app) ==
  LET s == JSString(app)
  IN  Len(s) >= 1 /\ \A i \in 1..Len(s) : s[i] \in Letters

\* Variant: the whole link is appended instead of its parameters.
IframeSrcWholeLink(href, app, params) ==
  <<".",".","/">> \o JSString(app)
    \o <<"/","s","h","o","w",".","h","t","m","l","?">> \o href

\* The src the click handler composes.
IframeSrc(href, app, params) ==
  <<".",".","/">> \o JSString(app)
    \o <<"/","s","h","o","w",".","h","t","m","l","?">> \o params

\* The iframe the click handler builds (its constant attributes left out).
NewIframe(href, app, params) ==
  [ id            |-> "ifrm0",
    canonicalHref |-> href,
    src           |-> IframeSrc(href, app, params),
    styleHeight   |-> <<"3","2","p","x">> ]

MetaText == "The App's contents are below."

\* What the click handler computes from a link: app, the outcome of the
\* test, and the iframe it builds when the test passes.
HandlerValues(href, params, app) ==
  [app |-> app, passes |-> AppNameTest(app), iFrame |-> NewIframe(href, app, params)]
HandlerParams(href, params) == HandlerValues(href, params, AppOf(params))

\* The values of postCompleted's loop and of the click handler for every
\* link the content server can send (computed once, looked up by the
\* actions).
Rows == [u \in PostURLs |->
           LoopBody([privly_URL |-> u], DataURLOf([privly_URL |-> u]))]
Clicks == [u \in PostURLs |-> HandlerParams(u, ParamsOf(u))]

\* Variant: the old iframe is not cleared before the new one is appended.
ReplacePreviewKeepsOld(old, iFrame) == Append(old, iFrame)

\* The children of the preview container after the handler's clear and
\* append.
ReplacePreview(old, iFrame) == <<iFrame>>

\* jQuery's text(value) is a getter when value is undefined: the element's
\* text stays as it was.
TextSet(old, value) == IF value = Undefined THEN old ELSE value

\* The handler's effect on the preview area, given its values for the link.
HandlerEffect(ui, link) ==
  LET lay == [ tableCol      |-> (ui.layout.tableCol \ {"col-lg-12"}) \cup {"col-lg-8"},
               iframeCol     |-> ui.layout.iframeCol \cup {"col-lg-4"},
               iframeDisplay |-> "inherit" ]
  IN  IF link.passes
      THEN [ layout  |-> lay,
             preview |-> ReplacePreview(ui.preview, link.iFrame),
             label   |-> [title |-> TextSet(ui.label.title, link.app),
                          meta  |-> MetaText] ]
      ELSE [ layout |-> lay, preview |-> ui.preview, label |-> ui.label ]

\* One run of the a.view_link click handler on the page's preview area.
viewLinkClick(ui, href) == HandlerEffect(ui, Clicks[href])

\* Every registered click handler runs, in order of registration.
RECURSIVE RunViewHandlers(_, _, _)
RunViewHandlers(k, ui, href) ==
  IF k = 0 THEN ui ELSE RunViewHandlers(k - 1, viewLinkClick(ui, href), href)

\* The height resizeIframePostedMessage assigns for a payload.
ResizeHeight(data) == JSString(At(Split(data, ","), 2)) \o Px

(***************************************************************************)
(* State of the page.                                                      *)
(***************************************************************************)
VARIABLES
  platform,       \* what privlyNetworkService.platformName() answers
  state,          \* the state callback that ran last ("Loading" before any)
  hooks,          \* the hooks registered on privlyExtension
  signals,        \* the signals fired to the extension, oldest first
  button,         \* #message_link_button: hidden, and its click listeners
  resizeListener, \* the window's message listener is registered
  ajax,           \* jQuery's ajaxStart/ajaxStop handlers and active requests
  loadingVisible, \* #loadingDiv is shown
  loginReq,       \* the session checks issued and the callbacks given
  postReq,        \* the post-list requests issued and the callback given
  delivered,      \* the outcome delivered for each request ("" while none)
  messages,       \* the text of #messages
  nav,            \* the navigation bar
  tableReady,     \* the #posts dataTable is initialised
  rows,           \* the rows of the post table
  viewHandlers,   \* how many a.view_link click handlers are registered
  layout,         \* classes of #table_col and #iframe_col, display of the latter
  preview,        \* the children of the .privly_iframe container
  label,          \* #privly_iframe_title and #privly_iframe_meta
  lastEvent,      \* history: the event handled last and whether it threw
  lastValidHref   \* history: the link of the last View click that passed the test

vars == << platform, state, hooks, signals, button, resizeListener, ajax,
           loadingVisible, loginReq, postReq, delivered, messages, nav, tableReady, rows,
           viewHandlers, layout, preview, label, lastEvent, lastValidHref >>

\* The variables the View click handler writes.
uiVars == << layout, preview, label >>

Event(kind, arg, threw) == [kind |-> kind, arg |-> arg, threw |-> threw]

\* The page after the script has loaded and before DOMContentLoaded.
Init ==
  /\ platform \in Platforms
  /\ state = "Loading"
  /\ hooks = {}
  /\ signals = <<>>
  /\ button = [hidden |-> FALSE, listeners |-> 0]
  /\ resizeListener = FALSE
  /\ ajax = [indicators |-> FALSE, active |-> 0]
  /\ loadingVisible \in BOOLEAN
  /\ loginReq = [issued |-> 0, canPost |-> "", login |-> "", error |-> ""]
  /\ postReq = [issued |-> 0, callback |-> ""]
  /\ delivered = [login |-> "", posts |-> ""]
  /\ messages = NoMessage
  /\ nav = [initialized |-> FALSE, loggedIn |-> FALSE]
  /\ tableReady = FALSE
  /\ rows = <<>>
  /\ viewHandlers = 0
  /\ layout = [tableCol |-> {"col-lg-12"}, iframeCol |-> {}, iframeDisplay |-> "none"]
  /\ preview = <<>>
  /\ label = [title |-> <<>>, meta |-> ""]
  /\ lastEvent = Event("none", <<>>, FALSE)
  /\ lastValidHref = <<>>

(***************************************************************************)
(* Collaborators: the network service, jQuery's ajax events, the extension.*)
(***************************************************************************)
\* jQuery's count of active requests when one more starts; ajaxStart fires
\* when it was zero.
AjaxStarted(a) == [a EXCEPT !.active = @ + 1]
ShownAfterStart(a, visible) == IF a.active = 0 /\ a.indicators THEN TRUE ELSE visible

\* ... and when one completes; ajaxStop fires when the count returns to zero.
AjaxCompleted(a) == [a EXCEPT !.active = @ - 1]
ShownAfterStop(a, visible) == IF a.active = 1 /\ a.indicators THEN FALSE ELSE visible

\* privlyNetworkService.initPrivlyService: one request; its answer runs one
\* of the three callbacks.
initPrivlyService(req, canPostCallback, loginCallback, errorCallback) ==
  [issued |-> req.issued + 1, canPost |-> canPostCallback,
   login |-> loginCallback, error |-> errorCallback]

\* privlyNetworkService.sameOriginGetRequest: one request with one callback.
sameOriginGetRequest(req, callback) ==
  [issued |-> req.issued + 1, callback |-> callback]

\* privlyExtension.firePrivlyMessageSecretEvent and firePrivlyURLEvent: the
\* signal is recorded with the hooks in place when it fires.
SecretSignal(registered) == [kind |-> "secret", payload |-> <<>>, hooks |-> registered]
URLSignal(url, registered) == [kind |-> "url", payload |-> url, hooks |-> registered]

(***************************************************************************)
(* The state callbacks of new.js.                                          *)
(***************************************************************************)
\* The variables the state callbacks write.
callbackVars == << state, messages, nav, tableReady, postReq, rows, viewHandlers >>

\* Variant: the secret signal fires before the hooks are assigned.
messagingInitializeSignalFirst(h, sig) ==
  [hooks |-> h \cup {"initialContent", "messageSecret"},
   signals |-> Append(sig, SecretSignal(h))]

\* messaging.initialize: both hooks are assigned, then the secret signal fires.
messagingInitialize(h, sig) ==
  LET h1 == h \cup {"initialContent"}
      h2 == h1 \cup {"messageSecret"}
  IN  [hooks |-> h2, signals |-> Append(sig, SecretSignal(h2))]

\* Variant: the click listener is wired on every platform.
RelayButtonAlwaysWired(b, name) ==
  [b EXCEPT !.hidden = (name = "HOSTED"), !.listeners = 1]

\* The relay button after pendingLogin's platform test.
RelayButtonSetup(b, name) ==
  IF name = "HOSTED" THEN [b EXCEPT !.hidden = TRUE]
  ELSE [b EXCEPT !.listeners = 1]

\* Variant: the request-error callback is wired to pendingPost.
SessionCheckErrorToPost(req) ==
  initPrivlyService(req, "pendingPost", "loginFailure", "pendingPost")

\* Variant: session success is wired straight to postCompleted.
SessionCheckSkipsPendingPost(req) ==
  initPrivlyService(req, "postCompleted", "loginFailure", "loginFailure")

\* The session check pendingLogin issues.
SessionCheck(req) ==
  initPrivlyService(req, "pendingPost", "loginFailure", "loginFailure")

\* Variant: the post-list request is issued a second time.
PostListRequestTwice(req) ==
  sameOriginGetRequest(sameOriginGetRequest(req, "postCompleted"), "postCompleted")

\* The post-list request pendingPost issues.
PostListRequest(req) == sameOriginGetRequest(req, "postCompleted")

\* DOMContentLoaded: pendingLogin initialises the application.
pendingLogin ==
  /\ state = "Loading"
  /\ state' = "PendingLogin"
  /\ nav' = [nav EXCEPT !.initialized = TRUE]
  /\ hooks' = messagingInitialize(hooks, signals).hooks
  /\ signals' = messagingInitialize(hooks, signals).signals
  /\ button' = RelayButtonSetup(button, platform)
  /\ resizeListener' = TRUE
  /\ LET registered == [ajax EXCEPT !.indicators = TRUE]
     IN  /\ loadingVisible' = ShownAfterStart(registered, loadingVisible)
         /\ ajax' = AjaxStarted(registered)
  /\ loginReq' = SessionCheck(loginReq)
  /\ lastEvent' = Event("DOMContentLoaded", <<>>, FALSE)
  /\ UNCHANGED << platform, postReq, delivered, messages, tableReady, rows,
                  viewHandlers, uiVars, lastValidHref >>

loginFailure ==
  /\ state' = "LoginFailure"
  /\ messages' = SignInPrompt
  /\ UNCHANGED << nav, tableReady, postReq, rows, viewHandlers >>

\* Variant: the post list is requested only once the extension has invoked
\* a hook.
pendingPostAwaitsExtension ==
  /\ state' = "PendingPost"
  /\ nav' = [nav EXCEPT !.loggedIn = TRUE]
  /\ tableReady' = TRUE
  /\ postReq' = IF lastEvent.kind = "hook" THEN PostListRequest(postReq) ELSE postReq
  /\ messages' = NoMessage
  /\ UNCHANGED << rows, viewHandlers >>

pendingPost ==
  /\ state' = "PendingPost"
  /\ nav' = [nav EXCEPT !.loggedIn = TRUE]
  /\ tableReady' = TRUE
  /\ postReq' = PostListRequest(postReq)
  /\ messages' = NoMessage
  /\ UNCHANGED << rows, viewHandlers >>

postSubmit ==
  /\ state' = "PostSubmit"
  /\ UNCHANGED << messages, nav, tableReady, postReq, rows, viewHandlers >>

createError ==
  /\ state' = "CreateError"
  /\ messages' = FetchErrorMsg
  /\ UNCHANGED << nav, tableReady, postReq, rows, viewHandlers >>

\* The first record of the response whose link carries no privlyDataURL
\* (0 when there is none): the loop throws there.
FirstWithoutData(response) ==
  LET bad == {i \in 1..Len(response.json) : Rows[response.json[i].privly_URL].throws}
  IN  IF bad = {} THEN 0 ELSE CHOOSE i \in bad : \A j \in bad : i <= j

\* The rows the loop adds before it ends, or throws at record first.
AddedRows(response, first) ==
  LET n == IF first = 0 THEN Len(response.json) ELSE first - 1
  IN  [i \in 1..n |-> Rows[response.json[i].privly_URL].row]

\* postCompleted, given the record at which its loop throws (0 for none):
\* it also throws when its argument has no json to take the length of.
PostCompletedRun(response, first) ==
  [ rows          |-> AddedRows(response, first),
    throws        |-> response.kind = "missing" \/ first # 0 ]

PostCompletedOutcome(response) == PostCompletedRun(response, FirstWithoutData(response))

\* Variant: a response that adds no row is reported as a fetch error.
postCompletedEmptyIsError(run) ==
  /\ state' = "PostCompleted"
  /\ rows' = rows \o run.rows
  /\ viewHandlers' = IF run.throws THEN viewHandlers ELSE viewHandlers + 1
  /\ messages' = IF run.rows = <<>> THEN FetchErrorMsg ELSE messages
  /\ UNCHANGED << nav, tableReady, postReq >>

\* postCompleted with the outcome of its loop: the rows are added, and the
\* click handler is registered unless the loop threw.
postCompletedEffect(run) ==
  /\ state' = "PostCompleted"
  /\ rows' = rows \o run.rows
  /\ viewHandlers' = IF run.throws THEN viewHandlers ELSE viewHandlers + 1
  /\ UNCHANGED << messages, nav, tableReady, postReq >>

postCompleted(response) == postCompletedEffect(PostCompletedOutcome(response))

\* The outcome of the callback named name for the argument arg, when it is
\* postCompleted.
CallbackOutcome(name, arg) ==
  IF name = "postCompleted" THEN PostCompletedOutcome(arg)
  ELSE [rows |-> <<>>, throws |-> FALSE]

\* A collaborator calls the callback it was given, by name.
RunCallback(name, run) ==
  CASE name = "pendingPost"   -> pendingPost
    [] name = "loginFailure"  -> loginFailure
    [] name = "postSubmit"    -> postSubmit
    [] name = "createError"   -> createError
    [] name = "postCompleted" -> postCompletedEffect(run)
    [] OTHER                  -> UNCHANGED callbackVars

\* jQuery's bookkeeping around a request's callback: a request the callback
\* issued is counted, then this request is counted out, unless the callback
\* threw and the exception cut the bookkeeping short.
AfterCallback(issuedBefore, issuedAfter, threw) ==
  LET started == issuedAfter > issuedBefore
      a1 == IF started THEN AjaxStarted(ajax) ELSE ajax
      v1 == IF started THEN ShownAfterStart(ajax, loadingVisible) ELSE loadingVisible
  IN  \E skipped \in (IF threw THEN BOOLEAN ELSE {FALSE}) :
        /\ ajax' = IF skipped THEN a1 ELSE AjaxCompleted(a1)
        /\ loadingVisible' = IF skipped THEN v1 ELSE ShownAfterStop(a1, v1)

\* A response is delivered: the callback runs inside jQuery's bookkeeping.
Deliver(kind, arg, name, run) ==
  /\ RunCallback(name, run)
  /\ AfterCallback(postReq.issued, postReq'.issued, run.throws)
  /\ lastEvent' = Event(kind, arg, run.throws)

\* The answer to the session check arrives: signed in and able to post,
\* not signed in, or a failed request.
SessionCheckResponse ==
  /\ loginReq.issued > 0
  /\ delivered.login = ""
  /\ \E outcome \in {"canPost", "login", "error"} :
       /\ delivered' = [delivered EXCEPT !.login = outcome]
       /\ Deliver("session", outcome, loginReq[outcome],
                  CallbackOutcome(loginReq[outcome], SessionData))
  /\ UNCHANGED << platform, hooks, signals, button, resizeListener, loginReq,
                  uiVars, lastValidHref >>

\* The callback sameOriginGetRequest calls for a response: none when it
\* stays silent about a failure.
Called(called, callback) == IF called THEN callback ELSE "none"

\* The answer to the post-list request arrives: the list of posts, or a
\* failure, on which the service calls the callback with an empty object or
\* calls nothing at all.
PostListResponse ==
  /\ postReq.issued > 0
  /\ delivered.posts = ""
  /\ \E response \in Responses, called \in BOOLEAN :
       /\ response.kind = "list" => called
       /\ delivered' = [delivered EXCEPT
            !.posts = IF response.kind = "list" THEN "success" ELSE "failure"]
       /\ Deliver("posts", response, Called(called, postReq.callback),
                  CallbackOutcome(Called(called, postReq.callback), response))
  /\ UNCHANGED << platform, hooks, signals, button, resizeListener, loginReq,
                  uiVars, lastValidHref >>

(***************************************************************************)
(* User and window events.                                                 *)
(***************************************************************************)
\* The user clicks the View link of a row: every registered handler runs
\* with the link's data-privly-app-link.
ViewClick ==
  \E i \in 1..Len(rows) :
    LET href  == rows[i].link
        after == RunViewHandlers(viewHandlers,
                   [layout |-> layout, preview |-> preview, label |-> label], href)
    IN  /\ layout' = after.layout
        /\ preview' = after.preview
        /\ label' = after.label
        /\ lastEvent' = Event("view", href, FALSE)
        /\ lastValidHref' = IF viewHandlers > 0 /\ Clicks[href].passes
                            THEN href ELSE lastValidHref
        /\ UNCHANGED << platform, state, hooks, signals, button, resizeListener,
                        ajax, loadingVisible, loginReq, postReq, delivered,
                        messages, nav, tableReady, rows, viewHandlers >>

\* Variant: the origin of the message is not tested.
AcceptsAnyOrigin(origin) == TRUE

\* The origin test of resizeIframePostedMessage.
AcceptsOrigin(origin) == origin = OwnOrigin

\* getElementById("ifrm0") finds no element: the handler throws.
ResizeThrows(origin) == AcceptsOrigin(origin) /\ preview = <<>>

\* The preview container after resizeIframePostedMessage handled a message.
resizeIframePostedMessage(origin, data) ==
  IF AcceptsOrigin(origin) /\ preview # <<>>
  THEN [preview EXCEPT ![1].styleHeight = ResizeHeight(data)]
  ELSE preview

\* A window message arrives once the listener is registered.
WindowMessage ==
  /\ resizeListener
  /\ \E origin \in Origins, data \in Payloads :
    /\ preview' = resizeIframePostedMessage(origin, data)
    /\ lastEvent' = Event("message", [origin |-> origin, data |-> data],
                          ResizeThrows(origin))
    /\ UNCHANGED << platform, state, hooks, signals, button, resizeListener,
                    ajax, loadingVisible, loginReq, postReq, delivered, messages,
                    nav, tableReady, rows, viewHandlers, layout, label,
                    lastValidHref >>

\* The number of "URL chosen" signals sent so far.
URLSignalCount == Cardinality({i \in 1..Len(signals) : signals[i].kind = "url"})

\* getElementById("ifrm0") finds no element: postUrl throws.
PostUrlThrows == preview = <<>>

\* Variant: the iframe's src is relayed instead of its canonical href.
PostUrlPayloadSrc(iFrame) == iFrame.src

\* What postUrl passes to firePrivlyURLEvent.
PostUrlPayload(iFrame) == iFrame.canonicalHref

\* The signals after postUrl ran.
postUrl ==
  IF PostUrlThrows THEN signals
  ELSE Append(signals, URLSignal(PostUrlPayload(preview[1]), hooks))

\* The user clicks the relay button: its click listeners run.
RelayClick ==
  /\ state # "Loading"
  /\ URLSignalCount < MaxSignals
  /\ signals' = IF button.listeners > 0 THEN postUrl ELSE signals
  /\ lastEvent' = Event("relay", <<>>, button.listeners > 0 /\ PostUrlThrows)
  /\ UNCHANGED << platform, state, hooks, button, resizeListener, ajax,
                  loadingVisible, loginReq, postReq, delivered, messages, nav,
                  tableReady, rows, viewHandlers, uiVars, lastValidHref >>

\* The extension, when present, calls a hook it finds registered; both
\* hooks of new.js are empty functions.
ExtensionHook ==
  \E h \in hooks :
    /\ lastEvent' = Event("hook", h, FALSE)
    /\ UNCHANGED << platform, state, hooks, signals, button, resizeListener,
                    ajax, loadingVisible, loginReq, postReq, delivered, messages,
                    nav, tableReady, rows, viewHandlers, uiVars, lastValidHref >>

Next ==
  \/ pendingLogin
  \/ SessionCheckResponse
  \/ PostListResponse
  \/ ViewClick
  \/ WindowMessage
  \/ RelayClick
  \/ ExtensionHook

Spec == Init /\ [][Next]_vars

\* The page with no extension present: no hook is ever invoked.
NextNoExtension ==
  \/ pendingLogin
  \/ SessionCheckResponse
  \/ PostListResponse
  \/ ViewClick
  \/ WindowMessage
  \/ RelayClick

\* ... where the document finishes loading and every request issued is
\* answered.
NoExtensionSpec ==
  /\ Init
  /\ [][NextNoExtension]_vars
  /\ WF_vars(pendingLogin)
  /\ WF_vars(SessionCheckResponse)
  /\ WF_vars(PostListResponse)

(***************************************************************************)
(* Properties.                                                             *)
(***************************************************************************)
\* A value that is a string matching ^[a-zA-Z]+$ (undefined is no string).
MatchesAppPattern(v) ==
  /\ v # Undefined
  /\ Len(v) >= 1
  /\ \A i \in 1..Len(v) : v[i] \in Letters

\* The part of a string after its first "?", empty when it has none.
RECURSIVE AfterFirstQuestionMark(_)
AfterFirstQuestionMark(s) ==
  IF s = <<>> THEN <<>>
  ELSE IF Head(s) = "?" THEN Tail(s)
  ELSE AfterFirstQuestionMark(Tail(s))

HasQuestionMark(s) == \E i \in 1..Len(s) : s[i] = "?"

\* TRUE when s ends with suffix.
EndsWith(s, suffix) ==
  /\ Len(s) >= Len(suffix)
  /\ SubSeq(s, Len(s) - Len(suffix) + 1, Len(s)) = suffix

\* The path of a URL (what precedes its first "?") and the rest of it.
RECURSIVE PathOf(_)
PathOf(s) ==
  IF s = <<>> \/ Head(s) = "?" THEN <<>> ELSE <<Head(s)>> \o PathOf(Tail(s))
QueryOf(url) == SubSeq(url, Len(PathOf(url)) + 1, Len(url))

\* A URL with its format indicator rewritten from JSON to HTML and nothing
\* else changed: a ".json" that ends the path becomes ".html", and
\* "format=json" in the query becomes "format=html".
FormatRewritten(url) ==
  LET path == PathOf(url)
      html == IF EndsWith(path, DotJson)
              THEN SubSeq(path, 1, Len(path) - Len(DotJson)) \o DotHtml
              ELSE path
  IN  html \o ReplaceFirst(QueryOf(url), FormatJson, FormatHtml)

\* The src "../" + app + "/show.html?" + params.
SrcFor(app, params) ==
  <<".",".","/">> \o app \o <<"/","s","h","o","w",".","h","t","m","l","?">> \o params

\* For a link, its decoded app and its data URL, what the statements below
\* expect of it.
ExpectedOf(u, app, dataURL) ==
  [ valid      |-> MatchesAppPattern(app),
    srcAfterQ  |-> SrcFor(JSString(app), AfterFirstQuestionMark(u)),
    srcAmended |-> SrcFor(JSString(app),
                          IF HasQuestionMark(u) THEN AfterFirstQuestionMark(u) ELSE u),
    manage     |-> IF dataURL = Undefined THEN <<>> ELSE FormatRewritten(dataURL) ]

\* ... for every link (computed once).
Expected ==
  [u \in PostURLs |->
     ExpectedOf(u, AppOf(ParamsOf(u)), DataURLOf([privly_URL |-> u]))]

ViewClicked == lastEvent.kind = "view"
MessageHandled == lastEvent.kind = "message"
RelayClicked == lastEvent.kind = "relay"

\* C1: once the session check has failed, through either failure callback,
\* loginFailure has run and the message area shows the sign-in prompt; no
\* post-list request has been issued and the post table has no row.
C1_LoginFailureIsTerminal ==
  delivered.login \in {"login", "error"} =>
    /\ state = "LoginFailure"
    /\ messages = SignInPrompt
    /\ postReq.issued = 0
    /\ rows = <<>>

\* C1 witness: the request-error callback was delivered, and the user went on
\* to click the relay button.
C1_Witness ==
  /\ delivered.login = "error"
  /\ messages = SignInPrompt
  /\ RelayClicked

\* C2: a View click on a link whose decoded privlyApp does not match
\* ^[a-zA-Z]+$ (a missing key included) creates no iframe: the preview
\* container is left as it was.
C2_NoIframeForInvalidApp ==
  [][ (lastEvent'.kind = "view" /\ ~Expected[lastEvent'.arg].valid)
        => preview' = preview ]_vars

\* C3: at most one preview iframe with the identifier ifrm0 exists.
C3_AtMostOnePreview ==
  Cardinality({i \in 1..Len(preview) : preview[i].id = "ifrm0"}) <= 1

\* C3 witness: a preview exists and the last View click, on another link,
\* did not replace it.
C3_Witness ==
  /\ ViewClicked
  /\ Len(preview) = 1
  /\ preview[1].canonicalHref # lastEvent.arg
  /\ viewHandlers > 0

\* C4: a window message from the page's own origin sets the style height of
\* the preview iframe to the payload's second comma-separated field followed
\* by "px" and changes nothing else; a message from another origin changes
\* nothing of the page.
C4_ResizeOnlyFromOwnOrigin ==
  [][ lastEvent'.kind = "message" =>
        /\ UNCHANGED << platform, state, hooks, signals, button, resizeListener,
                        ajax, loadingVisible, loginReq, postReq, delivered,
                        messages, nav, tableReady, rows, viewHandlers, layout,
                        label >>
        /\ IF lastEvent'.arg.origin = OwnOrigin
           THEN (preview # <<>> /\ Len(Split(lastEvent'.arg.data, ",")) >= 2) =>
                  preview' = [preview EXCEPT
                    ![1].styleHeight = Split(lastEvent'.arg.data, ",")[2] \o Px]
           ELSE preview' = preview ]_vars

\* C4 witness: a message from the page's own origin resized the preview.
C4_Witness ==
  /\ MessageHandled
  /\ lastEvent.arg.origin = OwnOrigin
  /\ preview # <<>>
  /\ preview[1].styleHeight = <<"2","4","0","p","x">>

\* C5 as stated: a View click on a link whose decoded privlyApp matches
\* ^[a-zA-Z]+$ creates the iframe whose src is "../" + app + "/show.html?" +
\* the part of the link after its first "?", and whose data-canonical-href
\* is the link.
C5_SrcFromPartAfterQuestionMark ==
  [][ (lastEvent'.kind = "view" /\ viewHandlers > 0
         /\ Expected[lastEvent'.arg].valid)
        => /\ Len(preview') = 1
           /\ preview'[1].src = Expected[lastEvent'.arg].srcAfterQ
           /\ preview'[1].canonicalHref = lastEvent'.arg ]_vars

\* C5 amended: ... + params, where params is the part of the link after its
\* first "?", or the whole link when it holds no "?"; the
\* data-canonical-href is the link.
C5_SrcFromParams ==
  [][ (lastEvent'.kind = "view" /\ viewHandlers > 0
         /\ Expected[lastEvent'.arg].valid)
        => /\ Len(preview') = 1
           /\ preview'[1].src = Expected[lastEvent'.arg].srcAmended
           /\ preview'[1].canonicalHref = lastEvent'.arg ]_vars

\* C5 witness: a View click on a link with a valid app name created the
\* preview of that link.
C5_Witness ==
  /\ ViewClicked
  /\ Expected[lastEvent.arg].valid
  /\ preview # <<>>
  /\ preview[1].canonicalHref = lastEvent.arg
  /\ preview[1].src = Expected[lastEvent.arg].srcAmended

\* C6: the manage URL of every row is the record's data URL with the format
\* indicator rewritten from JSON to HTML and every other part untouched.
C6_ManageURLRewritesFormatOnly ==
  \A i \in 1..Len(rows) : rows[i].manage = Expected[rows[i].link].manage

\* C7: after a failed post-list fetch createError has run and the message
\* area shows the fetch-error message.
C7_FetchFailureShowsError ==
  delivered.posts = "failure" =>
    /\ state = "CreateError"
    /\ messages = FetchErrorMsg

\* C8: a post-list request is issued only in the step that delivers the
\* session-check success; PendingPost is entered only from PendingLogin and
\* PostCompleted only from PendingPost.
C8_PostCompletedOnlyAfterPendingPost ==
  [][ /\ postReq'.issued > postReq.issued =>
           (delivered.login = "" /\ delivered'.login = "canPost")
      /\ (state' = "PendingPost" /\ state # "PendingPost") => state = "PendingLogin"
      /\ (state' = "PostCompleted" /\ state # "PostCompleted") =>
           (state = "PendingPost" /\ postReq.issued > 0
              /\ delivered.login = "canPost") ]_vars

\* C8 witness: postCompleted has run and filled the table.
C8_Witness ==
  /\ state = "PostCompleted"
  /\ rows # <<>>
  /\ delivered.posts = "success"

C10_HostedHidesRelay ==
  state # "Loading" =>
    IF platform = "HOSTED"
    THEN button.hidden /\ button.listeners = 0 /\ URLSignalCount = 0
    ELSE ~button.hidden /\ button.listeners = 1

\* C10 witness: on the HOSTED platform a preview exists and the relay button
\* was clicked.
C10_Witness ==
  /\ platform = "HOSTED"
  /\ RelayClicked
  /\ preview # <<>>


\* The two inbound hooks of the bridge.
InboundHooks == {"initialContent", "messageSecret"}

\* C11: every "secret requested" signal was fired with both inbound hooks
\* already registered, and they stay registered: a hook the extension
\* invokes after the signal finds both in place.
C11_HooksRegisteredBeforeSecretSignal ==
  /\ \A i \in 1..Len(signals) :
       signals[i].kind = "secret" => InboundHooks \subseteq signals[i].hooks
  /\ signals # <<>> => InboundHooks \subseteq hooks
  /\ lastEvent.kind = "hook" =>
       (signals # <<>> /\ signals[1].kind = "secret" /\ lastEvent.arg \in hooks)

\* C11 witness: the extension answered the secret signal by invoking the
\* messageSecret hook.
C11_Witness ==
  /\ lastEvent.kind = "hook"
  /\ lastEvent.arg = "messageSecret"
  /\ signals # <<>>
  /\ signals[1] = SecretSignal(InboundHooks)

\* The step delivers the answer to the post-list request.
PostsDelivered == lastEvent.kind = "posts"

\* C12: the step that delivers a successful post-list response holding an
\* empty array leaves the post table with zero rows and the message area
\* empty; the table stays empty in every later step.
C12_EmptyListShowsNoRowsNoError ==
  [][ /\ (lastEvent'.kind = "posts" /\ lastEvent'.arg.kind = "list"
           /\ lastEvent'.arg.json = <<>>)
        => (rows' = <<>> /\ messages' = NoMessage /\ state' = "PostCompleted")
      /\ (delivered.posts # "" /\ rows = <<>>)
        => (rows' = <<>> /\ messages' = messages) ]_vars

\* C12 witness: postCompleted handled the empty array of a successful fetch.
C12_Witness ==
  /\ PostsDelivered
  /\ lastEvent.arg.kind = "list"
  /\ lastEvent.arg.json = <<>>
  /\ delivered.posts = "success"
  /\ state = "PostCompleted"
  /\ viewHandlers = 1
  /\ rows = <<>>

\* The remote requests issued and not yet answered.
RequestsInFlight ==
  (loginReq.issued - (IF delivered.login = "" THEN 0 ELSE 1))
    + (postReq.issued - (IF delivered.posts = "" THEN 0 ELSE 1))

C14_ProgressWithoutExtension ==
  /\ (state = "Loading") ~> (state = "PendingLogin" /\ loginReq.issued = 1)
  /\ (delivered.login = "canPost") ~>
       (/\ tableReady
        /\ delivered.posts # ""
        /\ delivered.posts = "success" => state = "PostCompleted")
  /\ [][ (lastEvent'.kind = "view" /\ viewHandlers > 0
           /\ Clicks[lastEvent'.arg].passes)
          => (/\ Len(preview') = 1
              /\ preview'[1].canonicalHref = lastEvent'.arg) ]_vars

\* C14 witness: with no hook ever invoked, the table was filled and a View
\* click created a preview.
C14_Witness ==
  /\ state = "PostCompleted"
  /\ hooks = InboundHooks
  /\ rows # <<>>
  /\ ViewClicked
  /\ preview # <<>>
  /\ preview[1].canonicalHref = lastEvent.arg

\* C15: no remote call is retried: at most one session check and at most
\* one post-list request are issued in a page lifetime, whatever the
\* responses were.
C15_NoAutomaticRetry ==
  /\ loginReq.issued <= 1
  /\ postReq.issued <= 1
  /\ state # "Loading" => loginReq.issued = 1
  /\ delivered.login \in {"login", "error"} => postReq.issued = 0

\* C15 witness: the post-list fetch has failed and the page went on to
\* handle a later event without a second request.
C15_Witness ==
  /\ delivered.posts = "failure"
  /\ loginReq.issued = 1
  /\ postReq.issued = 1
  /\ MessageHandled

\* C16: a View click on a link whose decoded privlyApp fails the handler's
\* ^[a-zA-Z]+$ test changes nothing: the preview iframe, the title and
\* description, the message area and the layout and visibility of the table
\* and preview columns are as before.
C16_InvalidClickChangesNothing ==
  [][ (lastEvent'.kind = "view" /\ ~Clicks[lastEvent'.arg].passes)
        => UNCHANGED << preview, label, messages, layout >> ]_vars

\* C17: when postCompleted handles a list of n post records, n rows are
\* appended to the table, the i-th for the i-th record, and one more View
\* click handler is registered.
C17_OneRowPerRecord ==
  [][ (lastEvent'.kind = "posts" /\ lastEvent'.arg.kind = "list")
        => LET json == lastEvent'.arg.json
           IN  /\ Len(rows') = Len(rows) + Len(json)
               /\ SubSeq(rows', 1, Len(rows)) = rows
               /\ \A i \in 1..Len(json) :
                    rows'[Len(rows) + i].link = json[i].privly_URL
               /\ viewHandlers' = viewHandlers + 1 ]_vars

\* C18: whenever a preview iframe exists, its src, its data-canonical-href
\* and the title derive from one View click: the src is "../" + the title +
\* "/show.html?" + the part of the data-canonical-href after its first "?".
C18_PreviewAttributesFromOneClick ==
  preview # <<>> =>
    preview[1].src =
      SrcFor(label.title, AfterFirstQuestionMark(preview[1].canonicalHref))

\* C19: whenever resizeIframePostedMessage has handled a message from the
\* page's own origin, the preview iframe ifrm0 exists: none is handled
\* before a View click created the iframe, and the handler raises no error.
C19_ResizeFindsPreview ==
  (MessageHandled /\ lastEvent.arg.origin = OwnOrigin) =>
    (preview # <<>> /\ lastValidHref # <<>> /\ ~lastEvent.threw)

\* C20: whenever a click on the relay button has run postUrl, the preview
\* iframe ifrm0 exists: on a platform other than HOSTED no click runs postUrl
\* before a View click created the iframe, and postUrl raises no error.
C20_PostUrlFindsPreview ==
  (RelayClicked /\ button.listeners > 0) =>
    (preview # <<>> /\ URLSignalCount > 0 /\ ~lastEvent.threw)

====
